---- MODULE Spec2Model ----
(***************************************************************************)
(* A model of library.py: the Book record and its two-valued BookStatus,   *)
(* LibraryStorage (load_books / save_books over one backing file) and      *)
(* Library (add_book, remove_book, search_books, update_status), driven    *)
(* by the command loop of main().                                          *)
(*                                                                         *)
(* Text is modelled as a sequence of one-character strings, so that        *)
(* str.lower(), the substring test `in` and str(int) are computed and not  *)
(* assumed.  The backing file is modelled by the JSON document its text    *)
(* denotes (or by the fact that the text is no JSON document at all).      *)
(* SANY reads ASCII only: the two status literals of BookStatus are        *)
(* written transliterated.                                                 *)
(***************************************************************************)
EXTENDS Integers, Sequences, FiniteSets, TLC

VARIABLES
    pc,            \* "start": no Library yet; "running": main's loop; "crashed": __init__ raised
    books,         \* Library.books
    file,          \* the backing file (LibraryStorage.data_file)
    last,          \* the call that completed last: arguments, state before it, what it reported
    assigned,      \* the ids add_book has assigned so far
    startedEmpty   \* the collection the program loaded first was empty

vars == <<pc, books, file, last, assigned, startedEmpty>>

\* add_book stops assigning ids beyond MaxId (the code has no such limit).
MaxId == 3

(***************************************************************************)
(* BookStatus                                                              *)
(***************************************************************************)
AVAILABLE == "v nalichii"
ISSUED == "vydana"

\* _value2member_map_: external value -> member name
BookStatusMembers == {"AVAILABLE", "ISSUED"}

value(member) == IF member = "AVAILABLE" THEN AVAILABLE ELSE ISSUED

has_value(v) == v \in {value(m) : m \in BookStatusMembers}

\* BookStatus(v): the member whose value is v; ValueError when there is none.
BookStatus(v) ==
    IF has_value(v)
    THEN [raised |-> "none", member |-> CHOOSE m \in BookStatusMembers : value(m) = v]
    ELSE [raised |-> "ValueError"]

(***************************************************************************)
(* Book                                                                    *)
(***************************************************************************)
Book(book_id, title, author, year, status) ==
    [id |-> book_id, title |-> title, author |-> author, year |-> year, status |-> status]

\* A slip: the member's name written in place of its value.
to_dict_name(book) ==
    [id |-> book.id, title |-> book.title, author |-> book.author,
     year |-> book.year, status |-> book.status]

to_dict(book) ==
    [id |-> book.id, title |-> book.title, author |-> book.author,
     year |-> book.year, status |-> value(book.status)]

\* data["id"], data["title"], data["author"], data["year"] are looked up before
\* BookStatus(data["status"]) is called: a missing key is a KeyError whatever
\* the status is.
from_dict(data) ==
    IF ~({"id", "title", "author", "year", "status"} \subseteq DOMAIN data)
    THEN [raised |-> "KeyError"]
    ELSE LET s == BookStatus(data["status"])
         IN  IF s.raised # "none"
             THEN [raised |-> s.raised]
             ELSE [raised |-> "none",
                   book |-> Book(data["id"], data["title"], data["author"],
                                 data["year"], s.member)]

(***************************************************************************)
(* LibraryStorage                                                          *)
(***************************************************************************)
Missing == [exists |-> FALSE, valid |-> FALSE, data |-> <<>>]
Corrupt == [exists |-> TRUE, valid |-> FALSE, data |-> <<>>]
Json(records) == [exists |-> TRUE, valid |-> TRUE, data |-> records]

\* open(...) and json.load(file)
json_load(f) ==
    IF ~f.exists THEN [raised |-> "FileNotFoundError", data |-> <<>>]
    ELSE IF ~f.valid THEN [raised |-> "JSONDecodeError", data |-> <<>>]
    ELSE [raised |-> "none", data |-> f.data]

\* A slip: except FileNotFoundError alone.
ExceptFileNotFound(exc) == exc = "FileNotFoundError"

\* A slip: except Exception.
ExceptException(exc) == TRUE

\* except (FileNotFoundError, json.JSONDecodeError)
ExceptClause(exc) == exc \in {"FileNotFoundError", "JSONDecodeError"}

MinOf(S) == CHOOSE i \in S : \A j \in S : i <= j

load_books(f) ==
    LET doc == json_load(f)
        rs == [i \in 1..Len(doc.data) |-> from_dict(doc.data[i])]
        bad == {i \in 1..Len(doc.data) : rs[i].raised # "none"}
        exc == IF doc.raised # "none" THEN doc.raised
               ELSE IF bad # {} THEN rs[MinOf(bad)].raised
               ELSE "none"
    IN  IF exc = "none"
        THEN [raised |-> "none", books |-> [i \in 1..Len(doc.data) |-> rs[i].book]]
        ELSE IF ExceptClause(exc)
        THEN [raised |-> "none", books |-> <<>>]
        ELSE [raised |-> exc, books |-> <<>>]

save_books(bs) == Json([i \in 1..Len(bs) |-> to_dict(bs[i])])

(***************************************************************************)
(* Text: str.lower(), `in` on strings, str(int)                            *)
(***************************************************************************)
lower_char(c) ==
    CASE c = "A" -> "a"
      [] c = "B" -> "b"
      [] c = "C" -> "c"
      [] OTHER -> c

\* s.lower()
lower(s) == [i \in 1..Len(s) |-> lower_char(s[i])]

\* k in s
contains(k, s) ==
    \E i \in 1..(Len(s) - Len(k) + 1) : SubSeq(s, i, i + Len(k) - 1) = k

Digits == <<"0", "1", "2", "3", "4", "5", "6", "7", "8", "9">>

RECURSIVE str_nat(_)
str_nat(n) ==
    IF n < 10 THEN <<Digits[n + 1]>>
    ELSE Append(str_nat(n \div 10), Digits[(n % 10) + 1])

\* str(n)
str(n) == IF n < 0 THEN <<"-">> \o str_nat(-n) ELSE str_nat(n)

(***************************************************************************)
(* Inputs                                                                  *)
(***************************************************************************)
\* (title, author, year) of the books a user adds
BookInputs ==
    { <<(<<"A", "b">>), (<<"c">>), 19>>,
      <<(<<"b", "1">>), (<<"C", "a">>), 9>> }

IdInputs == 1..MaxId

\* the two literals, and a member's name given in place of its value
StatusInputs == {AVAILABLE, ISSUED, "ISSUED"}

KeywordInputs ==
    { <<>>, <<"a", "B">>, <<"c">>, <<"1">>, <<"9">>, <<"1", "9">>, <<"0", "9">> }

\* What the backing file may hold when the program starts.
InitFiles ==
    { Missing,
      Corrupt,
      Json(<<>>),
      \* a hand-edited file: ids not in order, the same id twice, an id that is
      \* not positive
      Json(<< [id |-> 2, title |-> <<"A", "b">>, author |-> <<"c">>, year |-> 19,
               status |-> ISSUED],
              [id |-> 0, title |-> <<"z">>, author |-> <<"z">>, year |-> 0,
               status |-> AVAILABLE],
              [id |-> 2, title |-> <<"b", "1">>, author |-> <<"C", "a">>, year |-> 9,
               status |-> AVAILABLE] >>),
      \* a status that is no BookStatus value
      Json(<< [id |-> 1, title |-> <<"A", "b">>, author |-> <<"c">>, year |-> 19,
               status |-> "ISSUED"] >>),
      \* a record without "year"
      Json(<< [id |-> 1, title |-> <<"A", "b">>, author |-> <<"c">>, year |-> 19,
               status |-> AVAILABLE],
              [id |-> 2, title |-> <<"b", "1">>, author |-> <<"C", "a">>,
               status |-> ISSUED] >>),
      \* a record without "status"
      Json(<< [id |-> 1, title |-> <<"A", "b">>, author |-> <<"c">>, year |-> 19] >>),
      \* a record without "title" whose status is no BookStatus value either
      Json(<< [id |-> 1, author |-> <<"c">>, year |-> 19, status |-> "lost"] >>) }

(***************************************************************************)
(* Library                                                                 *)
(***************************************************************************)
Ids(bs) == {bs[i].id : i \in 1..Len(bs)}

MaxOf(S) == CHOOSE i \in S : \A j \in S : j <= i

\* next((book for book in self.books if book.id == book_id), None), as an
\* index into self.books; 0 stands for None
find(bs, book_id) ==
    LET hits == {i \in 1..Len(bs) : bs[i].id = book_id}
    IN  IF hits = {} THEN 0 ELSE MinOf(hits)

\* A slip: an index counted from 0 used as one counted from 1.
remove_at_off_by_one(bs, i) == SubSeq(bs, 1, i - 2) \o SubSeq(bs, i, Len(bs))

\* list.remove of the element at index i
remove_at(bs, i) == SubSeq(bs, 1, i - 1) \o SubSeq(bs, i + 1, Len(bs))

\* A slip: the comparison made without lower().
matches_case_sensitive(book, keyword) ==
    \/ contains(keyword, book.title)
    \/ contains(keyword, book.author)
    \/ keyword = str(book.year)

matches(book, keyword) ==
    \/ contains(lower(keyword), lower(book.title))
    \/ contains(lower(keyword), lower(book.author))
    \/ keyword = str(book.year)

NoCall ==
    [op |-> "none", id |-> 0, new_status |-> "", keyword |-> <<>>,
     before |-> <<>>, fileBefore |-> Missing, wrote |-> FALSE, result |-> <<>>,
     report |-> "", raised |-> "none",
     afterAdd |-> FALSE, addBefore |-> <<>>, afterRemove |-> FALSE]

\* The record of a call made in the current state.
Call(op, id, wrote, report) ==
    [NoCall EXCEPT !.op = op, !.id = id, !.before = books, !.fileBefore = file,
                   !.wrote = wrote, !.report = report]

Init ==
    /\ pc = "start"
    /\ books = <<>>
    /\ file \in InitFiles
    /\ last = NoCall
    /\ assigned = {}
    /\ startedEmpty = FALSE

\* Library.__init__ (called by main)
LibraryInit ==
    /\ pc = "start"
    /\ LET r == load_books(file)
       IN  /\ pc' = IF r.raised = "none" THEN "running" ELSE "crashed"
           /\ books' = r.books
           /\ startedEmpty' = IF last.op = "none"
                              THEN r.raised = "none" /\ r.books = <<>>
                              ELSE startedEmpty
           /\ last' = [Call("init", 0, FALSE, "") EXCEPT !.raised = r.raised]
    /\ UNCHANGED <<file, assigned>>

\* A slip: the id taken from the size of the collection.
new_id_from_len(bs) == Len(bs) + 1

\* A slip: the smallest positive id that is free.
new_id_first_free(bs) == MinOf({k \in 1..(Len(bs) + 1) : k \notin Ids(bs)})

\* max((book.id for book in self.books), default=0) + 1
new_id(bs) == (IF bs = <<>> THEN 0 ELSE MaxOf(Ids(bs))) + 1

add_book(title, author, year) ==
    /\ pc = "running"
    /\ LET new_book == Book(new_id(books), title, author, year, "AVAILABLE")
       IN  /\ new_book.id <= MaxId
           /\ books' = Append(books, new_book)
           /\ file' = save_books(books')
           /\ last' = Call("add", new_book.id, TRUE, "added")
           /\ assigned' = assigned \cup {new_book.id}
    /\ UNCHANGED <<pc, startedEmpty>>

\* What remove_book(book_id) records of the call before it: whether that call
\* was the add_book that assigned book_id (and the collection before that
\* add_book), or a remove_book(book_id) that found its book.
AfterCall(call, book_id) ==
    LET afterAdd == last.op = "add" /\ last.id = book_id
    IN  [call EXCEPT !.afterAdd = afterAdd,
                     !.addBefore = IF afterAdd THEN last.before ELSE <<>>,
                     !.afterRemove = /\ last.op = "remove"
                                     /\ last.id = book_id
                                     /\ last.report = "removed"]

\* A slip: the file rewritten whether or not the book was found.
remove_book_rewrites(book_id) ==
    /\ pc = "running"
    /\ LET i == find(books, book_id)
       IN  /\ books' = IF i # 0 THEN remove_at(books, i) ELSE books
           /\ file' = save_books(books')
           /\ last' = AfterCall(Call("remove", book_id, TRUE,
                                      IF i # 0 THEN "removed" ELSE "not_found"), book_id)
    /\ UNCHANGED <<pc, assigned, startedEmpty>>

remove_book(book_id) ==
    /\ pc = "running"
    /\ LET i == find(books, book_id)
       IN  IF i # 0
           THEN /\ books' = remove_at(books, i)
                /\ file' = save_books(books')
                /\ last' = AfterCall(Call("remove", book_id, TRUE, "removed"), book_id)
           ELSE /\ UNCHANGED <<books, file>>
                /\ last' = AfterCall(Call("remove", book_id, FALSE, "not_found"), book_id)
    /\ UNCHANGED <<pc, assigned, startedEmpty>>

search_books(keyword) ==
    /\ pc = "running"
    /\ last' = [Call("search", 0, FALSE, "") EXCEPT
                   !.keyword = keyword,
                   !.result = SelectSeq(books, LAMBDA book : matches(book, keyword))]
    /\ UNCHANGED <<pc, books, file, assigned, startedEmpty>>

\* A slip: the status changed in memory and never saved.
update_status_unsaved(book_id, new_status) ==
    /\ pc = "running"
    /\ LET i == find(books, book_id)
       IN  IF i # 0 /\ has_value(new_status)
           THEN /\ books' = [books EXCEPT ![i].status = BookStatus(new_status).member]
                /\ UNCHANGED file
                /\ last' = [Call("update", book_id, FALSE, "updated") EXCEPT
                               !.new_status = new_status]
           ELSE /\ UNCHANGED <<books, file>>
                /\ last' = [Call("update", book_id, FALSE,
                                  IF i # 0 THEN "invalid_status" ELSE "not_found") EXCEPT
                               !.new_status = new_status]
    /\ UNCHANGED <<pc, assigned, startedEmpty>>

\* A slip: every book with the id updated, not the first one found.
update_status_every_match(book_id, new_status) ==
    /\ pc = "running"
    /\ LET i == find(books, book_id)
       IN  IF i # 0 /\ has_value(new_status)
           THEN /\ books' = [j \in 1..Len(books) |->
                                IF books[j].id = book_id
                                THEN [books[j] EXCEPT
                                         !.status = BookStatus(new_status).member]
                                ELSE books[j]]
                /\ file' = save_books(books')
                /\ last' = [Call("update", book_id, TRUE, "updated") EXCEPT
                               !.new_status = new_status]
           ELSE /\ UNCHANGED <<books, file>>
                /\ last' = [Call("update", book_id, FALSE,
                                  IF i # 0 THEN "invalid_status" ELSE "not_found") EXCEPT
                               !.new_status = new_status]
    /\ UNCHANGED <<pc, assigned, startedEmpty>>

update_status(book_id, new_status) ==
    /\ pc = "running"
    /\ LET i == find(books, book_id)
       IN  IF i # 0
           THEN IF has_value(new_status)
                THEN /\ books' = [books EXCEPT ![i].status = BookStatus(new_status).member]
                     /\ file' = save_books(books')
                     /\ last' = [Call("update", book_id, TRUE, "updated") EXCEPT
                                    !.new_status = new_status]
                ELSE /\ UNCHANGED <<books, file>>
                     /\ last' = [Call("update", book_id, FALSE, "invalid_status") EXCEPT
                                    !.new_status = new_status]
           ELSE /\ UNCHANGED <<books, file>>
                /\ last' = [Call("update", book_id, FALSE, "not_found") EXCEPT
                               !.new_status = new_status]
    /\ UNCHANGED <<pc, assigned, startedEmpty>>

\* choice "6" of main: the process ends; running the program again constructs
\* a new Library over the same file
Quit ==
    /\ pc = "running"
    /\ pc' = "start"
    /\ books' = <<>>
    /\ last' = Call("quit", 0, FALSE, "")
    /\ UNCHANGED <<file, assigned, startedEmpty>>

Next ==
    \/ LibraryInit
    \/ \E b \in BookInputs : add_book(b[1], b[2], b[3])
    \/ \E book_id \in IdInputs : remove_book(book_id)
    \/ \E keyword \in KeywordInputs : search_books(keyword)
    \/ \E book_id \in IdInputs, new_status \in StatusInputs :
           update_status(book_id, new_status)
    \/ Quit

Spec == Init /\ [][Next]_vars

(***************************************************************************)
(* Properties                                                              *)
(***************************************************************************)
\* The call recorded in last left memory and the backing file as they were.
NothingChanged ==
    /\ pc = "running"
    /\ books = last.before
    /\ file = last.fileBefore
    /\ ~last.wrote
    /\ last.raised = "none"

\* C1: when the collection the program started from was empty, then after any
\* sequence of add, remove, updateStatus and search calls every Book in the
\* collection has a positive integer id and no two Books share an id.
C1_IdsPositiveAndUnique ==
    (pc = "running" /\ startedEmpty) =>
        \A i \in 1..Len(books) :
            /\ books[i].id \in Nat \ {0}
            /\ \A j \in 1..Len(books) : books[i].id = books[j].id => i = j

\* add_book has just run on a collection that started empty and from which a
\* book had been removed.
C1_Witness ==
    /\ pc = "running"
    /\ startedEmpty
    /\ last.op = "add"
    /\ Len(books) >= 2
    /\ 1 \notin Ids(books)

\* C2 as stated: the id an add assigns differs from every id an earlier add
\* assigned, ids of Books removed since included.
C2_IdsNeverReused ==
    [][\A b \in BookInputs :
           add_book(b[1], b[2], b[3]) => new_id(books) \notin assigned]_vars

\* C2 as amended: the id an add assigns is greater than the id of every Book
\* in the collection at the time of the call, hence different from each of
\* them, and it is the id of the Book appended (the id of a removed Book is
\* assigned again once no Book with an id as large is left).
C2_IdAboveEveryPresentId ==
    last.op = "add" =>
        /\ last.id \in assigned
        /\ \A k \in Ids(last.before) : k < last.id
        /\ Len(books) = Len(last.before) + 1
        /\ books[Len(books)].id = last.id
        /\ (last.before = <<>> => last.id = 1)

\* add_book has just assigned an id while a Book with a smaller id and a gap
\* below it is in the collection.
C2_Witness ==
    /\ last.op = "add"
    /\ Len(last.before) >= 1
    /\ 1 \notin Ids(last.before)
    /\ last.id \in assigned

\* C3: add(title, author, year) followed by remove(k), k the id that add
\* assigned, leaves the collection equal to what it was before the add (same
\* Books, fields and order) and the backing file holding its serialization.
C3_AddThenRemoveRestores ==
    (last.op = "remove" /\ last.afterAdd) =>
        /\ last.report = "removed"
        /\ books = last.addBefore
        /\ file = Json([i \in 1..Len(last.addBefore) |->
                           [id |-> last.addBefore[i].id,
                            title |-> last.addBefore[i].title,
                            author |-> last.addBefore[i].author,
                            year |-> last.addBefore[i].year,
                            status |-> IF last.addBefore[i].status = "ISSUED"
                                       THEN ISSUED ELSE AVAILABLE]])

\* remove_book(k) has just run after the add_book that assigned k, on a
\* collection of two Books or more.
C3_Witness ==
    /\ last.op = "remove"
    /\ last.afterAdd
    /\ Len(last.addBefore) >= 2

\* C4: after construction and after every completed add, remove, updateStatus
\* or search call, what load would return from the backing file equals the
\* in-memory collection, field for field and in order.
C4_MemoryAndFileInSync ==
    pc = "running" =>
        LET r == load_books(file)
        IN  /\ r.raised = "none"
            /\ r.books = books

\* update_status has just changed a status in a collection of two Books.
C4_Witness ==
    /\ pc = "running"
    /\ last.op = "update"
    /\ last.report = "updated"
    /\ books # last.before
    /\ Len(books) >= 2

\* C5: save followed by load returns a sequence of the same length and order
\* whose Books have the same id, title, author, year and status; serialize
\* followed by deserialize gives back each Book's five fields.
C5_SaveLoadRoundTrip ==
    pc = "running" =>
        LET r == load_books(save_books(books))
        IN  /\ r.raised = "none"
            /\ Len(r.books) = Len(books)
            /\ \A i \in 1..Len(books) :
                   LET d == from_dict(to_dict(books[i]))
                   IN  /\ d.raised = "none"
                       /\ r.books[i] = d.book
                       /\ d.book.id = books[i].id
                       /\ d.book.title = books[i].title
                       /\ d.book.author = books[i].author
                       /\ d.book.year = books[i].year
                       /\ d.book.status = books[i].status

\* The Library has just been constructed anew from a file the program saved,
\* holding Books of either status.
C5_Witness ==
    /\ pc = "running"
    /\ last.op = "init"
    /\ last.fileBefore = save_books(books)
    /\ \E i, j \in 1..Len(books) :
           books[i].status = "ISSUED" /\ books[j].status = "AVAILABLE"

RequiredKeys == {"id", "title", "author", "year", "status"}

LacksKey(record) == \E k \in RequiredKeys : k \notin DOMAIN record

UnknownStatus(record) ==
    "status" \in DOMAIN record /\ record["status"] \notin {AVAILABLE, ISSUED}

\* The position of the first record of a JSON array that cannot be
\* deserialized; 0 when every record can.
FirstBadRecord(records) ==
    LET bad == {i \in 1..Len(records) : LacksKey(records[i]) \/ UnknownStatus(records[i])}
    IN  IF bad = {} THEN 0 ELSE CHOOSE i \in bad : \A j \in bad : i <= j

\* C7 as stated: a valid JSON array with a record whose status is not
\* recognized, or that lacks a required key, makes construction fail with a
\* ValueError, which is propagated.
C7_BadRecordRaisesValueError ==
    (/\ last.op = "init"
     /\ last.fileBefore.valid
     /\ FirstBadRecord(last.fileBefore.data) # 0) =>
        /\ pc = "crashed"
        /\ last.raised = "ValueError"

\* C7 as amended: such a file makes construction fail and the error is
\* propagated, no collection being built and the file left alone; the error
\* is a KeyError when the first record that cannot be deserialized lacks a
\* required key, and a ValueError when it has the five keys and a status that
\* is not recognized.
C7_BadRecordRaisesKeyOrValueError ==
    (/\ last.op = "init"
     /\ last.fileBefore.valid
     /\ FirstBadRecord(last.fileBefore.data) # 0) =>
        /\ pc = "crashed"
        /\ books = <<>>
        /\ file = last.fileBefore
        /\ last.raised =
               IF LacksKey(last.fileBefore.data[FirstBadRecord(last.fileBefore.data)])
               THEN "KeyError" ELSE "ValueError"

\* Construction has just failed on a file whose first record is sound and
\* whose second lacks a key.
C7_Witness ==
    /\ last.op = "init"
    /\ pc = "crashed"
    /\ last.fileBefore.valid
    /\ FirstBadRecord(last.fileBefore.data) = 2
    /\ last.raised = "KeyError"

\* C8: updateStatus(id, literal) with an id in the collection and a
\* recognized literal sets the status of the Book found to the literal's
\* BookStatus and changes nothing else: not that Book's other fields, nor any
\* other Book, nor the length or order of the collection.
C8_UpdateStatusChangesOnlyStatus ==
    (/\ last.op = "update"
     /\ last.id \in Ids(last.before)
     /\ last.new_status \in {AVAILABLE, ISSUED}) =>
        LET i == CHOOSE k \in 1..Len(last.before) :
                     /\ last.before[k].id = last.id
                     /\ \A j \in 1..(k - 1) : last.before[j].id # last.id
        IN  /\ last.report = "updated"
            /\ last.raised = "none"
            /\ Len(books) = Len(last.before)
            /\ books[i].status = (IF last.new_status = ISSUED THEN "ISSUED" ELSE "AVAILABLE")
            /\ books[i].id = last.before[i].id
            /\ books[i].title = last.before[i].title
            /\ books[i].author = last.before[i].author
            /\ books[i].year = last.before[i].year
            /\ \A j \in 1..Len(books) : j # i => books[j] = last.before[j]

\* update_status has just issued the second of three Books.
C8_Witness ==
    /\ last.op = "update"
    /\ last.report = "updated"
    /\ last.new_status = ISSUED
    /\ Len(books) = 3
    /\ last.before[2].id = last.id
    /\ last.before[2].status = "AVAILABLE"
    /\ books[2].status = "ISSUED"

\* C9: remove(id) with an id not in the collection, updateStatus with an id
\* not in the collection (whatever the literal) and updateStatus with an id in
\* the collection and an unrecognized literal raise nothing, leave the
\* collection as it was and do not write the backing file; in a collection
\* that started empty, a second remove of the id just removed reports
\* not-found only.
C9_RejectedCallIsNoOp ==
    /\ (last.op = "remove" /\ last.id \notin Ids(last.before)) =>
           (last.report = "not_found" /\ NothingChanged)
    /\ (last.op = "update" /\ last.id \notin Ids(last.before)) =>
           (last.report = "not_found" /\ NothingChanged)
    /\ (/\ last.op = "update"
        /\ last.id \in Ids(last.before)
        /\ last.new_status \notin {AVAILABLE, ISSUED}) =>
           (last.report = "invalid_status" /\ NothingChanged)
    /\ (last.op = "remove" /\ last.afterRemove /\ startedEmpty) =>
           (last.report = "not_found" /\ NothingChanged)

\* remove_book(k) has just run a second time, right after it removed Book k
\* from a collection that keeps another Book.
C9_Witness ==
    /\ last.op = "remove"
    /\ last.afterRemove
    /\ startedEmpty
    /\ last.report = "not_found"
    /\ Len(books) >= 1

\* Two characters that are the same letter, whatever their case.
SameLetter(a, b) == a = b \/ {a, b} \in {{"A", "a"}, {"B", "b"}, {"C", "c"}}

\* k occurs in s as a substring, case ignored.
OccursIgnoringCase(k, s) ==
    \E off \in 0..(Len(s) - Len(k)) :
        \A j \in 1..Len(k) : SameLetter(s[off + j], k[j])

DigitValue(c) == CHOOSE d \in 0..9 : Digits[d + 1] = c

RECURSIVE DecimalValue(_)
DecimalValue(k) ==
    IF k = <<>> THEN 0
    ELSE 10 * DecimalValue(SubSeq(k, 1, Len(k) - 1)) + DigitValue(k[Len(k)])

\* k is the decimal numeral of the natural number n: digits only, no
\* leading zero.
IsNumeralOf(k, n) ==
    /\ Len(k) >= 1
    /\ \A j \in 1..Len(k) : \E d \in 1..10 : Digits[d] = k[j]
    /\ (Len(k) > 1 => k[1] # "0")
    /\ DecimalValue(k) = n

IsDecimalOf(k, n) ==
    IF n >= 0 THEN IsNumeralOf(k, n)
    ELSE Len(k) >= 2 /\ k[1] = "-" /\ IsNumeralOf(Tail(k), -n)

ShouldMatch(book, keyword) ==
    \/ OccursIgnoringCase(keyword, book.title)
    \/ OccursIgnoringCase(keyword, book.author)
    \/ IsDecimalOf(keyword, book.year)

\* C10: search(keyword) returns, in collection order and without changing
\* the collection or the backing file, exactly the Books whose title or
\* author contains keyword as a substring, case ignored, or whose year
\* written in decimal is keyword; when no Book matches, the empty sequence.
C10_SearchReturnsTheMatches ==
    last.op = "search" =>
        LET hit == {i \in 1..Len(last.before) : ShouldMatch(last.before[i], last.keyword)}
            nth(j) == CHOOSE i \in hit : Cardinality({h \in hit : h <= i}) = j
        IN  /\ NothingChanged
            /\ Len(last.result) = Cardinality(hit)
            /\ \A j \in 1..Len(last.result) : last.result[j] = last.before[nth(j)]
            /\ (hit = {} => last.result = <<>>)

\* search_books has just found, by a keyword in another case, one Book of
\* several.
C10_Witness ==
    /\ last.op = "search"
    /\ last.keyword = <<"a", "B">>
    /\ Len(last.result) = 1
    /\ Len(books) >= 2
    /\ last.result[1] # books[1]

====
